---- MODULE Spec2Model ----
(***************************************************************************)
(* ttynamed: aliases for USB serial devices, keyed by the device's         *)
(* (manufacturer, model, serial) triple.  Every invocation of the program  *)
(* is one run of run_app: it loads the alias file, possibly enumerates the *)
(* present devices, possibly rewrites the alias file, and exits.  The      *)
(* state that survives between invocations is the alias file.              *)
(***************************************************************************)
EXTENDS Integers, Sequences, FiniteSets, TLC

(* Longest list of present devices one enumeration returns. *)
MaxDevices == 2

(* ------------------------------------------------------------------ *)
(* Option<String>                                                      *)
(* ------------------------------------------------------------------ *)
None == <<>>
Some(v) == <<v>>

(* ------------------------------------------------------------------ *)
(* struct Tty and its derived PartialEq                                *)
(* ------------------------------------------------------------------ *)
Tty(m, mo, s) == [manufacturer |-> m, model |-> mo, serial |-> s]

TtyEq(a, b) ==
    /\ a.manufacturer = b.manufacturer
    /\ a.model = b.model
    /\ a.serial = b.serial

(* The identities of the devices that can be plugged in: one that      *)
(* reports a manufacturer only, one that reports nothing at all.       *)
DeviceTtys ==
    { Tty(Some("FTDI"), None, None),
      Tty(None, None, None) }

DevicePaths == {"/dev/ttyUSB0", "/dev/ttyACM0"}

(* struct PresentTty *)
PresentTty == [tty : DeviceTtys, device : DevicePaths]

(* available_ttys(): whatever the host has plugged in at the moment of  *)
(* the call, in enumeration order; two entries may carry the same path  *)
(* or the same identity.                                                *)
available_ttys == UNION { [1..n -> PresentTty] : n \in 0..MaxDevices }

(* ------------------------------------------------------------------ *)
(* Friendly names, as sequences of characters                          *)
(* ------------------------------------------------------------------ *)
Alnum == {"a", "b", "d", "e", "i", "l", "s", "t", "u", "1", "2"}

NameSet ==
    { <<>>,
      <<"u", "_", "1">>,
      <<"t", "2">>,
      <<"a", "-", "b">>,
      <<"a", "!">>,
      <<"l", "i", "s", "t">>,
      <<"b">> }

(* The names of the subcommands built in run_app. *)
subcommand_names ==
    { <<"l", "i", "s", "t">>, <<"a", "d", "d">>, <<"d", "e", "l", "e", "t", "e">> }

(* Regex::new(r"[^a-zA-Z0-9_--]").is_match(friendly): the outcomes the  *)
(* build can produce.  A character outside letters, digits, '_' and '-' *)
(* always matches.  Whether '-' itself matches depends on how the regex *)
(* crate reads the trailing "_--" of the class (a literal '-', or a set *)
(* difference with nothing on its right), so a name whose only other    *)
(* characters are hyphens may or may not match.  The empty name has no  *)
(* character that could match.                                          *)
InvalidChar(friendly) ==
    IF \E i \in 1..Len(friendly) : friendly[i] \notin Alnum \cup {"_", "-"}
    THEN {TRUE}
    ELSE IF \E i \in 1..Len(friendly) : friendly[i] = "-"
         THEN {TRUE, FALSE}
         ELSE {FALSE}

(* ------------------------------------------------------------------ *)
(* struct Configuration { ttys: HashMap<String, Tty> } and the file    *)
(* ------------------------------------------------------------------ *)
EmptyTtys == [n \in {} |-> Tty(None, None, None)]

(* HashMap::remove and HashMap::insert *)
MapRemove(m, k) == [n \in DOMAIN m \ {k} |-> m[n]]

MapInsert(m, k, v) == [n \in DOMAIN m \cup {k} |-> IF n = k THEN v ELSE m[n]]

(* The alias file: missing, text that does not parse as a Configuration, *)
(* or the TOML of a Configuration.                                       *)
NoFile == [kind |-> "absent", ttys |-> EmptyTtys]
Garbage == [kind |-> "garbage", ttys |-> EmptyTtys]
TomlFile(t) == [kind |-> "toml", ttys |-> t]

(* What File::open and read_to_string can do on the file. *)
FileIo(source) ==
    IF source.kind = "absent" THEN {"open_err"} ELSE {"ok", "open_err", "read_err"}

(* load_config: a file that cannot be opened gives the default (empty)  *)
(* Configuration; a read or parse failure gives Err.                    *)
load_config(source, io) ==
    IF io = "open_err"
    THEN [ok |-> TRUE, ttys |-> EmptyTtys]
    ELSE IF io = "read_err" \/ source.kind = "garbage"
         THEN [ok |-> FALSE, ttys |-> EmptyTtys]
         ELSE [ok |-> TRUE, ttys |-> source.ttys]

NotLoaded == [ok |-> FALSE, ttys |-> EmptyTtys]

(* What a table of the file parses as when the text stops after one of  *)
(* its lines: fields are written in declaration order, an absent field  *)
(* writes no line, and a missing line reads back as None.               *)
CutShort(t) ==
    { t,
      Tty(t.manufacturer, t.model, None),
      Tty(t.manufacturer, None, None),
      Tty(None, None, None) }

(* fs::write truncates the file and then writes the text; when it fails *)
(* part-way the file holds a prefix of the text.  The prefix either     *)
(* does not parse, or holds some of the tables (the HashMap's order is  *)
(* arbitrary), the last of them possibly cut short.                     *)
PartialWrites(t) ==
    {Garbage}
    \cup (IF DOMAIN t = {} THEN {TomlFile(EmptyTtys)} ELSE {})
    \cup UNION { UNION { { TomlFile([n \in S |-> IF n = last THEN cut ELSE t[n]]) :
                            cut \in CutShort(t[last]) } :
                          last \in S } :
                  S \in SUBSET (DOMAIN t) \ {{}} }

(* save_config(config, to): the outcomes of encoding and fs::write on   *)
(* the file `to`: written in full, not written at all (the file could   *)
(* not be created or truncated), or written in part.                    *)
save_config(t, to) ==
    { [ok |-> TRUE, file |-> TomlFile(t)] }
    \cup { [ok |-> FALSE, file |-> f] : f \in {to} \cup PartialWrites(t) }

(* ------------------------------------------------------------------ *)
(* The decisions of run_app                                            *)
(* ------------------------------------------------------------------ *)

(* add: the entries of available_ttys() whose device is the argument. *)
FindDevice(pr, dev) == { i \in 1..Len(pr) : pr[i].device = dev }

(* A to_remove that finds no name. *)
ToRemoveNone(ttys, tty) == {}

(* add: the names whose Tty equals the one to add. *)
ToRemove(ttys, tty) == { name \in DOMAIN ttys : TtyEq(ttys[name], tty) }

(* add: config.ttys.remove(name) for every name in to_remove. *)
RemoveAll(ttys, names) == [n \in DOMAIN ttys \ names |-> ttys[n]]

(* add: the message printed after a successful save. *)
AddReport(to_remove) == IF to_remove = {} THEN "added" ELSE "modified"

(* A delete that drops every entry. *)
DeleteEntryAndRest(ttys, name) == EmptyTtys

(* delete: the Configuration handed to save_config. *)
DeleteEntry(ttys, name) == MapRemove(ttys, name)

(* The first position of a scan that matched. *)
Min(S) == CHOOSE i \in S : \A j \in S : i <= j

(* A scan that settles for the first match. *)
PickFirst(pr, tty) ==
    LET matches == { i \in 1..Len(pr) : TtyEq(pr[i].tty, tty) }
    IN  IF matches = {}
        THEN [result |-> "DeviceNotPresent", path |-> ""]
        ELSE [result |-> "Ok", path |-> pr[Min(matches)].device]

(* A scan in which a later match replaces the earlier one. *)
PickLast(pr, tty) ==
    LET matches == { i \in 1..Len(pr) : TtyEq(pr[i].tty, tty) }
    IN  IF matches = {}
        THEN [result |-> "DeviceNotPresent", path |-> ""]
        ELSE [result |-> "Ok",
              path |-> pr[CHOOSE i \in matches : \A j \in matches : j <= i].device]

(* resolve: the scan of available_ttys() for the alias's Tty.  The     *)
(* second match returns the error before anything is printed.          *)
Pick(pr, tty) ==
    LET matches == { i \in 1..Len(pr) : TtyEq(pr[i].tty, tty) }
    IN  IF matches = {}
        THEN [result |-> "DeviceNotPresent", path |-> ""]
        ELSE IF Cardinality(matches) = 1
             THEN [result |-> "Ok", path |-> pr[Min(matches)].device]
             ELSE [result |-> "AmbiguousMatch", path |-> ""]

(* list: one row of the table.  `at` is the position in                *)
(* available_ttys() of the device whose loop iteration pushed the row, *)
(* 0 for the rows pushed after that loop; the rows are kept as a set   *)
(* because the HashMap's iteration order is not specified.             *)
Row(c, n, d, t, i) == [colour |-> c, name |-> n, device |-> d, tty |-> t, at |-> i]

(* list: the aliases that are not in not_missing after the loop. *)
Misses(ttys, pr) ==
    { k \in DOMAIN ttys : \A i \in 1..Len(pr) : ~TtyEq(pr[i].tty, ttys[k]) }

(* A list without the rows of the aliases that are not connected. *)
ListRowsNoMissing(ttys, pr) ==
    { Row("Green", p[2], pr[p[1]].device, pr[p[1]].tty, p[1]) :
        p \in { q \in (1..Len(pr)) \X DOMAIN ttys : TtyEq(pr[q[1]].tty, ttys[q[2]]) } }
    \cup
    { Row("Yellow", <<>>, pr[i].device, pr[i].tty, i) :
        i \in { j \in 1..Len(pr) : \A k \in DOMAIN ttys : ~TtyEq(pr[j].tty, ttys[k]) } }

(* list, when the alias file loaded: a row per present device and      *)
(* alias of equal Tty, a row per present device equal to no alias,     *)
(* then a row per alias that no present device equalled.               *)
ListRows(ttys, pr) ==
    { Row("Green", p[2], pr[p[1]].device, pr[p[1]].tty, p[1]) :
        p \in { q \in (1..Len(pr)) \X DOMAIN ttys : TtyEq(pr[q[1]].tty, ttys[q[2]]) } }
    \cup
    { Row(IF pr[i].tty.manufacturer = None \/ pr[i].tty.model = None
             \/ pr[i].tty.serial = None
          THEN "Yellow" ELSE "Black",
          <<>>, pr[i].device, pr[i].tty, i) :
        i \in { j \in 1..Len(pr) : \A k \in DOMAIN ttys : ~TtyEq(pr[j].tty, ttys[k]) } }
    \cup
    { Row("Red", k, "(missing)", ttys[k], 0) : k \in Misses(ttys, pr) }

(* list, when the alias file did not load: the present devices only. *)
ListRowsNoConfig(pr) ==
    { Row("Black", <<>>, pr[i].device, pr[i].tty, i) : i \in 1..Len(pr) }

(* ------------------------------------------------------------------ *)
(* State                                                               *)
(* ------------------------------------------------------------------ *)
VARIABLES
    disk,           \* the alias file at config_file_path
    pc,             \* "idle": no invocation in progress; "done": run_app returned
    cmd,            \* the subcommand of the invocation that returned
    friendly_name,  \* its name argument
    device,         \* its device argument ("" when it has none)
    fileio,         \* how File::open / read_to_string went ("none": not attempted)
    loaded,         \* what load_config returned
    present,        \* what available_ttys() returned (<<>> when not called)
    result,         \* what run_app returned: "Ok" or the kind of the Err
    stdout,         \* what it printed on success: the path, or the add/delete report
    rows,           \* the table list built
    before,         \* the alias file when the invocation started
    added,          \* the last successful add whose file is still in place
    faults          \* whether an earlier invocation met an I/O failure on the file

vars == <<disk, pc, cmd, friendly_name, device, fileio, loaded, present, result,
          stdout, rows, before, added, faults>>

NoAdded == [valid |-> FALSE, name |-> <<>>, device |-> "", tty |-> Tty(None, None, None)]

Init ==
    /\ disk = NoFile
    /\ pc = "idle"
    /\ cmd = "none"
    /\ friendly_name = <<>>
    /\ device = ""
    /\ fileio = "none"
    /\ loaded = NotLoaded
    /\ present = <<>>
    /\ result = "Ok"
    /\ stdout = ""
    /\ rows = {}
    /\ before = NoFile
    /\ added = NoAdded
    /\ faults = FALSE

(* run_app returns `res` having left `file` at config_file_path. *)
Ran(c, n, d, io, ld, pr, res, o, rw, file) ==
    /\ pc' = "done"
    /\ cmd' = c
    /\ friendly_name' = n
    /\ device' = d
    /\ fileio' = io
    /\ loaded' = ld
    /\ present' = pr
    /\ result' = res
    /\ stdout' = o
    /\ rows' = rw
    /\ before' = disk
    /\ disk' = file
    /\ added' = IF c = "add" /\ res = "Ok"
                THEN [valid |-> TRUE, name |-> n, device |-> d, tty |-> file.ttys[n]]
                ELSE IF file # disk THEN NoAdded ELSE added
    /\ UNCHANGED faults

(* ------------------------------------------------------------------ *)
(* The subcommands                                                     *)
(* ------------------------------------------------------------------ *)

(* ttynamed list *)
List ==
    /\ pc = "idle"
    /\ \E io \in FileIo(disk), pr \in available_ttys :
         LET ld == load_config(disk, io)
         IN  Ran("list", <<>>, "", io, ld, pr, "Ok", "",
                 IF ld.ok THEN ListRows(ld.ttys, pr) ELSE ListRowsNoConfig(pr),
                 disk)

(* ttynamed delete <name> *)
Delete(name) ==
    /\ pc = "idle"
    /\ \E io \in FileIo(disk) :
         LET ld == load_config(disk, io)
         IN  IF ~ld.ok
             THEN Ran("delete", name, "", io, ld, <<>>, "ConfigLoadError", "", {}, disk)
             ELSE IF name \in DOMAIN ld.ttys
                  THEN \E s \in save_config(DeleteEntry(ld.ttys, name), disk) :
                         Ran("delete", name, "", io, ld, <<>>,
                             IF s.ok THEN "Ok" ELSE "ConfigSaveError",
                             "removed", {}, s.file)
                  ELSE Ran("delete", name, "", io, ld, <<>>, "UnknownAlias", "", {}, disk)

(* ttynamed add <device> <name> *)
Add(dev, friendly) ==
    /\ pc = "idle"
    /\ IF friendly \in subcommand_names
       THEN Ran("add", friendly, dev, "none", NotLoaded, <<>>, "InvalidName", "", {}, disk)
       ELSE \E bad \in InvalidChar(friendly) :
         IF bad
         THEN Ran("add", friendly, dev, "none", NotLoaded, <<>>, "InvalidName", "", {}, disk)
         ELSE \E io \in FileIo(disk) :
           LET ld == load_config(disk, io)
           IN  IF ~ld.ok
               THEN Ran("add", friendly, dev, io, ld, <<>>, "ConfigLoadError", "", {}, disk)
               ELSE \E pr \in available_ttys :
                 LET found == FindDevice(pr, dev)
                 IN  IF Cardinality(found) > 1
                     THEN Ran("add", friendly, dev, io, ld, pr, "DuplicateDevice", "", {}, disk)
                     ELSE IF found = {}
                     THEN Ran("add", friendly, dev, io, ld, pr, "DeviceNotPresent", "", {}, disk)
                     ELSE
                       LET to_add == pr[Min(found)]
                           to_remove == ToRemove(ld.ttys, to_add.tty)
                           config == MapInsert(RemoveAll(ld.ttys, to_remove),
                                               friendly, to_add.tty)
                       IN  \E s \in save_config(config, disk) :
                             Ran("add", friendly, dev, io, ld, pr,
                                 IF s.ok THEN "Ok" ELSE "ConfigSaveError",
                                 IF s.ok THEN AddReport(to_remove) ELSE "",
                                 {}, s.file)

(* ttynamed <name> *)
Resolve(name) ==
    /\ pc = "idle"
    /\ \E io \in FileIo(disk) :
         LET ld == load_config(disk, io)
         IN  IF ~ld.ok
             THEN Ran("resolve", name, "", io, ld, <<>>, "ConfigLoadError", "", {}, disk)
             ELSE IF name \notin DOMAIN ld.ttys
                  THEN Ran("resolve", name, "", io, ld, <<>>, "UnknownAlias", "", {}, disk)
                  ELSE \E pr \in available_ttys :
                         LET r == Pick(pr, ld.ttys[name])
                         IN  Ran("resolve", name, "", io, ld, pr, r.result, r.path, {}, disk)

(* The invocation that returned met an I/O failure on the alias file:  *)
(* the file exists and could not be opened or read, or the save failed. *)
RunFaulted ==
    \/ fileio = "open_err" /\ before.kind # "absent"
    \/ fileio = "read_err"
    \/ result = "ConfigSaveError"

(* main: the process exits; the next invocation starts afresh. *)
Exit ==
    /\ pc = "done"
    /\ pc' = "idle"
    /\ cmd' = "none"
    /\ friendly_name' = <<>>
    /\ device' = ""
    /\ fileio' = "none"
    /\ loaded' = NotLoaded
    /\ present' = <<>>
    /\ result' = "Ok"
    /\ stdout' = ""
    /\ rows' = {}
    /\ before' = disk
    /\ faults' = (faults \/ RunFaulted)
    /\ UNCHANGED <<disk, added>>

Next ==
    \/ List
    \/ \E name \in NameSet : Delete(name)
    \/ \E dev \in DevicePaths, friendly \in NameSet : Add(dev, friendly)
    \/ \E name \in NameSet \ subcommand_names : Resolve(name)
    \/ Exit

Spec == Init /\ [][Next]_vars

(* ------------------------------------------------------------------ *)
(* Properties.  "The store" an operation works on is the Configuration *)
(* load_config returned to it; the store it leaves is the alias file.  *)
(* The statements that the code violates are put in their weakest      *)
(* form: for invocations before which no I/O failure happened, and for *)
(* stores whose names are plain, unless the statement is about these.  *)
(* ------------------------------------------------------------------ *)

(* A name that the naming rule admits whatever the build: non-empty,   *)
(* letters, digits and '_' only, not a subcommand.                     *)
PlainName(n) ==
    /\ n # <<>>
    /\ \A i \in 1..Len(n) : n[i] \in Alnum \cup {"_"}
    /\ n \notin subcommand_names

(* Every name of the map is plain. *)
PlainNames(ttys) == \A n \in DOMAIN ttys : PlainName(n)

(* No two entries of the list of present devices have the same path. *)
DistinctPaths(pr) ==
    \A i, j \in 1..Len(pr) : i # j => pr[i].device # pr[j].device

(* C1: resolve of a name that is in the store prints a path only when  *)
(* exactly one present device has the alias's identity, and then that  *)
(* device's path; with no such device it fails "not present"; with two *)
(* or more it fails as ambiguous and prints nothing.  A name that is   *)
(* not in the store fails "unknown alias" whatever is present.         *)
ResolveContract ==
    (pc = "done" /\ cmd = "resolve" /\ loaded.ok) =>
        IF friendly_name \notin DOMAIN loaded.ttys
        THEN result = "UnknownAlias" /\ stdout = ""
        ELSE LET m == { i \in 1..Len(present) :
                          present[i].tty = loaded.ttys[friendly_name] }
             IN  /\ m = {} => (result = "DeviceNotPresent" /\ stdout = "")
                 /\ Cardinality(m) = 1 =>
                      (result = "Ok" /\ \A i \in m : stdout = present[i].device)
                 /\ Cardinality(m) >= 2 => (result = "AmbiguousMatch" /\ stdout = "")
                 /\ result = "Ok" => Cardinality(m) = 1

(* C1 witness: a resolve that found two present devices, at different  *)
(* paths, with the alias's identity.                                   *)
ResolveAmbiguousReached ==
    /\ pc = "done" /\ cmd = "resolve" /\ fileio = "ok" /\ loaded.ok /\ ~faults
    /\ PlainNames(loaded.ttys)
    /\ friendly_name \in DOMAIN loaded.ttys
    /\ Len(present) = 2
    /\ present[1].tty = loaded.ttys[friendly_name]
    /\ present[2].tty = loaded.ttys[friendly_name]
    /\ present[1].device # present[2].device
    /\ result = "AmbiguousMatch"

(* C2: after a successful add the store holds exactly one entry with   *)
(* the identity of the device at the given path, under the given name; *)
(* every other entry that had that identity is gone, and the entries   *)
(* with other identities under other names are as they were.           *)
AddReplacesAliases ==
    (pc = "done" /\ cmd = "add" /\ result = "Ok") =>
        \E i \in 1..Len(present) :
            /\ present[i].device = device
            /\ disk.kind = "toml"
            /\ { n \in DOMAIN disk.ttys : disk.ttys[n] = present[i].tty } = {friendly_name}
            /\ DOMAIN disk.ttys \subseteq DOMAIN loaded.ttys \cup {friendly_name}
            /\ \A n \in DOMAIN loaded.ttys \ {friendly_name} :
                 IF loaded.ttys[n] = present[i].tty
                 THEN n \notin DOMAIN disk.ttys
                 ELSE n \in DOMAIN disk.ttys /\ disk.ttys[n] = loaded.ttys[n]

(* C2 witness: a successful add that took the device away from another *)
(* name and kept an entry with another identity.                       *)
AddReplacedOld ==
    /\ pc = "done" /\ cmd = "add" /\ result = "Ok" /\ fileio = "ok" /\ ~faults
    /\ PlainNames(loaded.ttys) /\ PlainName(friendly_name)
    /\ \E old \in DOMAIN loaded.ttys \ {friendly_name} :
         /\ loaded.ttys[old] = disk.ttys[friendly_name]
         /\ old \notin DOMAIN disk.ttys
    /\ \E other \in DOMAIN loaded.ttys \ {friendly_name} :
         /\ loaded.ttys[other] # disk.ttys[friendly_name]
         /\ other \in DOMAIN disk.ttys

(* C3 as stated: add of x at a path followed by resolve of x (which    *)
(* reads the file add wrote) prints the path iff a device with the     *)
(* added identity is present at that path at resolve time.             *)
AddThenResolveIff ==
    (pc = "done" /\ cmd = "resolve" /\ added.valid /\ friendly_name = added.name
       /\ fileio = "ok" /\ ~faults /\ PlainNames(loaded.ttys)
       /\ DistinctPaths(present)) =>
        ( (result = "Ok" /\ stdout = added.device)
          <=> \E i \in 1..Len(present) :
                present[i].device = added.device /\ present[i].tty = added.tty )

(* C3 amended: add of x at a path followed by resolve of x prints the  *)
(* path iff resolve opened and read the file add wrote, a device with  *)
(* the added identity is present at that path, and no other present    *)
(* device has that identity.                                           *)
AddThenResolveUnique ==
    (pc = "done" /\ cmd = "resolve" /\ added.valid /\ friendly_name = added.name) =>
        ( (result = "Ok" /\ stdout = added.device)
          <=> /\ fileio = "ok"
              /\ \E i \in 1..Len(present) :
                   /\ present[i].device = added.device
                   /\ present[i].tty = added.tty
                   /\ \A j \in 1..Len(present) : j # i => present[j].tty # added.tty )

(* C3 witness: resolve right after add, the added device still at its  *)
(* path, a second device with the same identity at another path.       *)
ResolveAfterAddAmbiguous ==
    /\ pc = "done" /\ cmd = "resolve" /\ added.valid /\ friendly_name = added.name
    /\ fileio = "ok" /\ ~faults /\ PlainNames(loaded.ttys)
    /\ Len(present) = 2
    /\ present[2].device = added.device /\ present[2].tty = added.tty
    /\ present[1].device # added.device /\ present[1].tty = added.tty
    /\ result # "Ok"

(* C4: delete of a name that is not in the store fails and leaves the  *)
(* alias file as it was; delete of a name that is in the store, when   *)
(* it succeeds, removes that entry and leaves every other entry as it  *)
(* was.                                                                *)
DeleteContract ==
    (pc = "done" /\ cmd = "delete" /\ loaded.ok) =>
        IF friendly_name \notin DOMAIN loaded.ttys
        THEN result = "UnknownAlias" /\ disk = before
        ELSE /\ result \in {"Ok", "ConfigSaveError"}
             /\ result = "Ok" =>
                  /\ disk.kind = "toml"
                  /\ DOMAIN disk.ttys = DOMAIN loaded.ttys \ {friendly_name}
                  /\ \A n \in DOMAIN disk.ttys : disk.ttys[n] = loaded.ttys[n]

(* C4 witness: a delete of an unknown name on a store that has two     *)
(* entries.                                                            *)
DeleteUnknownReached ==
    /\ pc = "done" /\ cmd = "delete" /\ fileio = "ok" /\ loaded.ok /\ ~faults
    /\ PlainNames(loaded.ttys)
    /\ Cardinality(DOMAIN loaded.ttys) = 2
    /\ friendly_name \notin DOMAIN loaded.ttys
    /\ result = "UnknownAlias"
    /\ disk = before

(* C5 as stated: list gives every present device exactly one row and   *)
(* every stored alias exactly one row.                                 *)
ListOneRowEach ==
    (pc = "done" /\ cmd = "list" /\ fileio = "ok" /\ loaded.ok /\ ~faults
       /\ PlainNames(loaded.ttys) /\ DistinctPaths(present)) =>
        /\ \A i \in 1..Len(present) : Cardinality({ r \in rows : r.at = i }) = 1
        /\ \A k \in DOMAIN loaded.ttys :
             Cardinality({ r \in rows : r.colour \in {"Green", "Red"} /\ r.name = k }) = 1

(* C5 amended: list puts every present device and every stored alias   *)
(* in exactly one of known-present, unknown-present, known-missing,    *)
(* none omitted, with one known-present row per pair of a present      *)
(* device and an alias of equal identity: a device equal to k >= 1     *)
(* aliases has those k known-present rows and no other, a device equal *)
(* to none has exactly one unknown-present row, an alias equal to      *)
(* k >= 1 devices is in those k known-present rows and has no          *)
(* known-missing row, an alias equal to none has exactly one           *)
(* known-missing row, and there are no other rows.                     *)
ListClassifies ==
    (pc = "done" /\ cmd = "list" /\ loaded.ok) =>
        /\ \A i \in 1..Len(present) :
             LET mine == { r \in rows : r.at = i }
                 al == { k \in DOMAIN loaded.ttys : loaded.ttys[k] = present[i].tty }
             IN  /\ \A r \in mine : r.device = present[i].device /\ r.tty = present[i].tty
                 /\ IF al = {}
                    THEN /\ Cardinality(mine) = 1
                         /\ \A r \in mine : r.colour \in {"Yellow", "Black"} /\ r.name = <<>>
                    ELSE /\ Cardinality(mine) = Cardinality(al)
                         /\ { r.name : r \in mine } = al
                         /\ \A r \in mine : r.colour = "Green"
        /\ \A k \in DOMAIN loaded.ttys :
             LET mine == { r \in rows : r.colour \in {"Green", "Red"} /\ r.name = k }
                 devs == { i \in 1..Len(present) : present[i].tty = loaded.ttys[k] }
             IN  IF devs = {}
                 THEN /\ Cardinality(mine) = 1
                      /\ \A r \in mine : r.colour = "Red" /\ r.at = 0 /\ r.tty = loaded.ttys[k]
                 ELSE /\ Cardinality(mine) = Cardinality(devs)
                      /\ { r.at : r \in mine } = devs
                      /\ \A r \in mine : r.colour = "Green"
        /\ \A r \in rows :
             \/ r.at \in 1..Len(present)
             \/ r.colour = "Red" /\ r.at = 0 /\ r.name \in DOMAIN loaded.ttys

(* C5 witness: a list in which one alias equals two present devices    *)
(* and another alias equals none.                                      *)
ListSharedIdentityReached ==
    /\ pc = "done" /\ cmd = "list" /\ fileio = "ok" /\ loaded.ok /\ ~faults
    /\ PlainNames(loaded.ttys) /\ DistinctPaths(present)
    /\ Len(present) = 2
    /\ present[1].tty = present[2].tty
    /\ \E k \in DOMAIN loaded.ttys : loaded.ttys[k] = present[1].tty
    /\ \E k \in DOMAIN loaded.ttys : loaded.ttys[k] # present[1].tty
    /\ Cardinality(rows) = 3

(* C6: an add, delete or resolve that ends in failure leaves the alias *)
(* file equal to what it was before the operation.                     *)
FailureLeavesStore ==
    (pc = "done" /\ cmd \in {"add", "delete", "resolve"} /\ result # "Ok"
       /\ ~faults /\ PlainName(friendly_name)
       /\ before.kind = "toml" /\ DOMAIN before.ttys # {} /\ PlainNames(before.ttys)) =>
        disk = before

(* C7: add fails, with the alias file unchanged, on a name that is     *)
(* empty, has a character other than a letter, digit, '_' or '-', or   *)
(* is a subcommand; so every name add inserts is a non-empty token     *)
(* over that alphabet that is not a subcommand.  (The adds whose save  *)
(* fails are left to C6.)                                              *)
NamingEnforced ==
    (pc = "done" /\ cmd = "add" /\ ~faults /\ result # "ConfigSaveError"
       /\ \/ friendly_name = <<>>
          \/ \E i \in 1..Len(friendly_name) : friendly_name[i] \notin Alnum \cup {"_", "-"}
          \/ friendly_name \in subcommand_names) =>
        (result # "Ok" /\ disk = before)

(* C8: load gives an empty store only when the alias file does not     *)
(* exist; when the file exists and cannot be opened, read or parsed,   *)
(* list, add, delete and resolve alike end in a load error with the    *)
(* alias file untouched.                                               *)
LoadErrorAborts ==
    (pc = "done" /\ fileio # "none" /\ before.kind # "absent" /\ ~faults
       /\ (cmd = "list" \/ PlainName(friendly_name)) /\ PlainNames(before.ttys)
       /\ (fileio # "ok" \/ before.kind = "garbage")) =>
        (~loaded.ok /\ result = "ConfigLoadError" /\ disk = before)

(* C9: a successful add reports "added" exactly when the name was new  *)
(* and no prior alias was removed or replaced, and "modified"          *)
(* otherwise, also when the name existed with another identity.        *)
AddReportClaim ==
    (pc = "done" /\ cmd = "add" /\ result = "Ok" /\ fileio = "ok" /\ ~faults
       /\ PlainNames(loaded.ttys) /\ PlainName(friendly_name)) =>
        /\ stdout \in {"added", "modified"}
        /\ stdout = "added" <=>
             /\ friendly_name \notin DOMAIN loaded.ttys
             /\ \A n \in DOMAIN loaded.ttys : loaded.ttys[n] # disk.ttys[friendly_name]

(* C10: starting from an empty store, after any sequence of add and    *)
(* delete, successful or failing, no two entries of the store have     *)
(* equal identities.                                                   *)
NoDuplicateAliases ==
    (disk.kind = "toml" /\ PlainNames(disk.ttys)) =>
        \A a, b \in DOMAIN disk.ttys : a # b => disk.ttys[a] # disk.ttys[b]

====
